---- MODULE Spec2Model ----
(***************************************************************************)
(* Model of the disruption core of karpenter:                              *)
(*   pkg/controllers/disruption/types.go   NewCandidate, Command.Decision  *)
(*   pkg/controllers/disruption/drift.go   Drift.ComputeCommand            *)
(*                                                                         *)
(* Six specifications share the variables:                                *)
(*   Spec           one call of Drift.ComputeCommand, a loop iteration or  *)
(*                  a comparison of the sort a step                        *)
(*   SpecPass       the calls of a pass, all on one budget mapping         *)
(*   SpecLive       Spec, the call running to its end                      *)
(*   SpecSort       one call on longer lists of candidates that have pods  *)
(*   SpecCandidate  one call of NewCandidate on any arguments              *)
(*   SpecDecision   Commands are built and Decision() is called            *)
(***************************************************************************)
EXTENDS Integers, Sequences, FiniteSets, TLC

\* ------------------------------------------------------------------ bounds

\* longest candidate list handed to ComputeCommand / held by a Command
MaxCands == 2
\* largest per-nodepool budget at the start of a pass
MaxBudget == 2
\* ComputeCommand invocations sharing one budget mapping
MaxCalls == 2
\* most replacement node claims a simulation proposes / a Command holds
MaxRepl == 1
\* longest list of candidates with pods handed to ComputeCommand
MaxSortCands == 3

\* ------------------------------------------------------- program constants

\* math.MaxInt (of a 32-bit int, the widest integer TLC computes with): what
\* unevictablePods returns when listing the pods fails
MaxInt == 2147483647

NoOpDecision == "no-op"
ReplaceDecision == "replace"
DeleteDecision == "delete"

GracefulDisruptionClass == "graceful"
EventualDisruptionClass == "eventual"

\* Drift.Reason(): v1.DisruptionReasonDrifted
Reason == "Drifted"

\* Drift.Class()
Class == EventualDisruptionClass

\* errCandidateDeleting, and any other error SimulateScheduling returns
errCandidateDeleting == "errCandidateDeleting"
errSimulation == "errSimulation"
nil == "nil"

\* ------------------------------------------------------------- value sets

NodePools == {"np-a", "np-b"}
Reasons == {Reason, "Underutilized"}
\* LastTransitionTime values of the Drifted condition
Times == {1, 2}
\* len(candidate.reschedulablePods)
PodCounts == {0, 1}
\* what counting the not-disruptable pods waiting for eviction can give
UnevictableCounts == {0, 1}
\* nodeutil.GetPods: a count of such pods, or the listing fails
ListOutcomes ==
    { [failed |-> FALSE, count |-> n] : n \in UnevictableCounts }
    \cup { [failed |-> TRUE, count |-> 0] }

\* a candidate is known by its position in the argument list (its pointer)
CandidateOf(i, np, t, k) ==
    [id |-> i, nodePool |-> np, driftedAt |-> t, reschedulablePods |-> k]

CandidateLists ==
    UNION {
        { [i \in 1..n |-> CandidateOf(i, f[i][1], f[i][2], f[i][3])] :
            f \in [1..n -> NodePools \X Times \X PodCounts] } :
        n \in 0..MaxCands }

\* lists of candidates of one nodepool that all have a pod to reschedule
NonEmptyCandidateLists ==
    UNION {
        { [i \in 1..n |-> CandidateOf(i, "np-a", f[i], 1)] : f \in [1..n -> Times] } :
        n \in 0..MaxSortCands }

\* scheduling.Results, as far as ComputeCommand reads it
NoResults == [allScheduled |-> TRUE, errors |-> "", newNodeClaims |-> <<>>]

NodeClaimLists == { [i \in 1..n |-> i] : n \in 0..MaxRepl }

\* what SimulateScheduling can come back with
SimOutcomes ==
    { [err |-> e, results |-> NoResults] : e \in {errCandidateDeleting, errSimulation} }
    \cup { [err |-> nil,
            results |-> [allScheduled |-> TRUE, errors |-> "", newNodeClaims |-> r]] :
            r \in NodeClaimLists }
    \cup { [err |-> nil,
            results |-> [allScheduled |-> FALSE, errors |-> "pod-errors",
                         newNodeClaims |-> <<>>]] }

\* ---------------------------------------------------------------- Command

EmptyCommand == [candidates |-> <<>>, replacements |-> <<>>]


\* Decision with the replacements alone deciding 'replace'
DecisionReplacementsOnly(c) ==
    IF Len(c.replacements) > 0 THEN ReplaceDecision
    ELSE IF Len(c.candidates) > 0 THEN DeleteDecision
    ELSE NoOpDecision

\* Command.Decision
Decision(c) ==
    IF Len(c.candidates) > 0 /\ Len(c.replacements) > 0 THEN ReplaceDecision
    ELSE IF Len(c.candidates) > 0 /\ Len(c.replacements) = 0 THEN DeleteDecision
    ELSE NoOpDecision

\* ------------------------------------------------------------------ state

VARIABLES
    disruptionBudgetMapping, \* nodepool -> reason -> remaining disruptions
    candidates,              \* ComputeCommand's argument slice, sorted in place
    empty,                   \* the batch of empty candidates
    unevictablePodsCache,    \* node -> count, local to one call
    pc,                      \* position in ComputeCommand
    idx,                     \* index of the range loop
    sortI, sortJ,            \* indices of the stable sort
    command, results, err,   \* what ComputeCommand returned
    published,               \* events given to the recorder in this call
    simulated,               \* SimulateScheduling calls of this call, in order
    skipped,                 \* candidates passed over for an exhausted budget
    entryBudget,             \* the mapping when the call began
    startBudget,             \* the mapping when the pass began
    committed,               \* nodepool -> candidates returned in the pass, by the
                             \* empty batches and after a simulation
    calls,                   \* ComputeCommand calls begun in the pass
    decision,                \* result of the last Decision() call
    callArgs,                \* the arguments of the last NewCandidate call
    newCandidate,            \* what NewCandidate returned: the Candidate or nil,
    newCandidateErr          \* and the error

driftVars == <<disruptionBudgetMapping, candidates, empty, unevictablePodsCache,
               pc, idx, sortI, sortJ, results, err, published, simulated,
               skipped, entryBudget, startBudget, committed, calls>>

candidateVars == <<callArgs, newCandidate, newCandidateErr>>

vars == <<driftVars, command, decision, candidateVars>>

\* the budget ComputeCommand reads for a candidate
Budget(c) == disruptionBudgetMapping[c.nodePool][Reason]

\* ------------------------------------------------------------- sorting


\* the comparison turned around: the youngest drift first
DriftedAfter(a, b) == a.driftedAt > b.driftedAt

\* the less function of the first sort: Drifted's LastTransitionTime.Before
DriftedBefore(a, b) == a.driftedAt < b.driftedAt

PermutationsOf(s) ==
    LET n == Len(s)
        ps == { p \in [1..n -> 1..n] : \A i, j \in 1..n : i # j => p[i] # p[j] }
    IN  { [i \in 1..n |-> s[p[i]]] : p \in ps }

\* sort.Slice by the Drifted condition's LastTransitionTime: sorted, and the
\* order of equal elements is whatever the unstable sort leaves ("The sort is
\* not guaranteed to be stable: equal elements may be reversed from their
\* original order", package sort; pdqsort does so on the longer slices), so
\* every sorted permutation is an outcome
SortSlice(s) ==
    { t \in PermutationsOf(s) :
        \A i, j \in 1..Len(t) : i < j => ~DriftedBefore(t[j], t[i]) }

\* the closure unevictablePods: the count it returns and the cache it leaves,
\* o being what nodeutil.GetPods gives if it is called
UnevictablePods(cache, c, o) ==
    IF c.id \in DOMAIN cache THEN [count |-> cache[c.id], cache |-> cache]
    ELSE IF o.failed THEN [count |-> MaxInt, cache |-> cache]
    ELSE [count |-> o.count, cache |-> cache @@ (c.id :> o.count)]

Swap(s, a, b) == [s EXCEPT ![a] = s[b], ![b] = s[a]]

\* ------------------------------------------------- Drift.ComputeCommand

Returned == {"returnedEmpty", "returnedCandidate", "returnedError", "returnedNoOp"}

NoCache == [n \in {} |-> 0]

\* the candidates of a command that belong to a nodepool
CountOf(np, cs) == Cardinality({ i \in 1..Len(cs) : cs[i].nodePool = np })

\* return cmd, res, e: the call ends and the caller holds the command
Return(where, cmd, res, e) ==
    /\ pc' = where
    /\ command' = cmd
    /\ results' = res
    /\ err' = e
    /\ committed' =
        [np \in NodePools |->
            IF where = "returnedEmpty"
            THEN [committed[np] EXCEPT !.empty = @ + CountOf(np, cmd.candidates)]
            ELSE [committed[np] EXCEPT !.simulated = @ + CountOf(np, cmd.candidates)]]

\* the state between two calls: no call's frame, no command held
Idle ==
    /\ candidates = <<>>
    /\ empty = <<>>
    /\ unevictablePodsCache = NoCache
    /\ idx = 1
    /\ sortI = 2
    /\ sortJ = 2
    /\ command = EmptyCommand
    /\ results = NoResults
    /\ err = nil
    /\ published = <<>>
    /\ simulated = <<>>
    /\ skipped = {}

\* entry on one of the given argument lists, and the first sort (by the
\* Drifted condition's transition time)
ComputeCommandOn(lists) ==
    /\ pc = "idle"
    /\ \E arguments \in lists : candidates' \in SortSlice(arguments)
    /\ calls' = calls + 1
    /\ entryBudget' = disruptionBudgetMapping
    /\ pc' = "empty"
    /\ UNCHANGED <<disruptionBudgetMapping, empty, unevictablePodsCache, idx, sortI, sortJ,
                   command, results, err, published, simulated, skipped, startBudget,
                   committed, decision, candidateVars>>

\* a call on any candidates
ComputeCommand == ComputeCommandOn(CandidateLists)

\* a call on candidates that all have pods to reschedule: the call gets to the
\* stable sort and the scan
ComputeCommandOfNonEmpty == ComputeCommandOn(NonEmptyCandidateLists)

\* the caller has taken what the call returned; the next call of the pass gets
\* the same budget mapping
CallerContinues ==
    /\ pc \in Returned
    /\ calls < MaxCalls
    /\ pc' = "idle"
    /\ candidates' = <<>>
    /\ empty' = <<>>
    /\ unevictablePodsCache' = NoCache
    /\ idx' = 1
    /\ sortI' = 2
    /\ sortJ' = 2
    /\ command' = EmptyCommand
    /\ results' = NoResults
    /\ err' = nil
    /\ published' = <<>>
    /\ simulated' = <<>>
    /\ skipped' = {}
    /\ entryBudget' = disruptionBudgetMapping
    /\ UNCHANGED <<disruptionBudgetMapping, startBudget, committed, calls, decision, candidateVars>>


\* the budget test of the empty scan letting a budget of 0 through
BudgetAllowsAtZero(c) == Budget(c) >= 0

\* the budget test of the empty scan asking for more than one disruption
BudgetAllowsAboveOne(c) == Budget(c) > 1

\* whether an empty candidate's nodepool allows its disruption
BudgetAllows(c) == Budget(c) > 0


\* the budget left as it was when an empty candidate is taken
DecrementedNot(mapping, c) == mapping

\* the budget counted up when an empty candidate is taken
Incremented(mapping, c) == [mapping EXCEPT ![c.nodePool][Reason] = @ + 1]

\* disruptionBudgetMapping[candidate.nodePool.Name][d.Reason()]--
Decremented(mapping, c) == [mapping EXCEPT ![c.nodePool][Reason] = @ - 1]

\* one iteration of the loop over the candidates that collects the empty ones
EmptyScanVisit ==
    /\ pc = "empty"
    /\ idx <= Len(candidates)
    /\ LET candidate == candidates[idx] IN
        IF candidate.reschedulablePods > 0
        THEN UNCHANGED <<empty, disruptionBudgetMapping, skipped>>
        ELSE IF BudgetAllows(candidate)
        THEN /\ empty' = Append(empty, candidate)
             /\ disruptionBudgetMapping' = Decremented(disruptionBudgetMapping, candidate)
             /\ UNCHANGED skipped
        ELSE /\ skipped' = skipped \cup {candidate.id}
             /\ UNCHANGED <<empty, disruptionBudgetMapping>>
    /\ idx' = idx + 1
    /\ UNCHANGED <<candidates, unevictablePodsCache, pc, sortI, sortJ, command, results,
                   err, published, simulated, entryBudget, startBudget, committed,
                   calls, decision, candidateVars>>

\* the command of the empty batch
EmptyCommandOf(batch) == [candidates |-> batch, replacements |-> <<>>]

\* after the loop: the empty candidates are returned if there are any
EmptyScanReturn ==
    /\ pc = "empty"
    /\ idx > Len(candidates)
    /\ Len(empty) > 0
    /\ Return("returnedEmpty", EmptyCommandOf(empty), NoResults, nil)
    /\ UNCHANGED <<disruptionBudgetMapping, candidates, empty, unevictablePodsCache, idx,
                   sortI, sortJ, published, simulated, skipped, entryBudget,
                   startBudget, calls, decision, candidateVars>>

\* after the loop, no empty candidate: on to the stable sort by unevictable pods
\* (sort.SliceStable is an insertion sort on a slice shorter than 20)
EmptyScanFallThrough ==
    /\ pc = "empty"
    /\ idx > Len(candidates)
    /\ Len(empty) = 0
    /\ pc' = IF Len(candidates) >= 2 THEN "sort" ELSE "scan"
    /\ idx' = 1
    /\ sortI' = 2
    /\ sortJ' = 2
    /\ UNCHANGED <<disruptionBudgetMapping, candidates, empty, unevictablePodsCache,
                   command, results, err, published, simulated, skipped, entryBudget,
                   startBudget, committed, calls, decision, candidateVars>>

\* the comparison of the stable sort
Less(a, b) == a < b

\* one comparison of the insertion sort, less(sortJ, sortJ-1), and the swap
SortLess ==
    /\ pc = "sort"
    /\ \E o1, o2 \in ListOutcomes :
        LET a == UnevictablePods(unevictablePodsCache, candidates[sortJ], o1)
            b == UnevictablePods(a.cache, candidates[sortJ - 1], o2)
            less == Less(a.count, b.count)
            inner == less /\ sortJ - 1 > 1
            last == ~inner /\ sortI + 1 > Len(candidates)
        IN  /\ unevictablePodsCache' = b.cache
            /\ candidates' = IF less THEN Swap(candidates, sortJ, sortJ - 1)
                             ELSE candidates
            /\ sortJ' = IF inner THEN sortJ - 1 ELSE IF last THEN 2 ELSE sortI + 1
            /\ sortI' = IF inner THEN sortI ELSE IF last THEN 2 ELSE sortI + 1
            /\ pc' = IF last THEN "scan" ELSE "sort"
    /\ UNCHANGED <<disruptionBudgetMapping, empty, idx, command, results, err, published,
                   simulated, skipped, entryBudget, startBudget, committed, calls,
                   decision, candidateVars>>


\* the budget test of the scan never finding the budget exhausted
BudgetExhaustedBelowZero(c) == Budget(c) < 0

\* the range loop's budget test
BudgetExhausted(c) == Budget(c) = 0

\* a message as it is, and as pretty.Sentence renders it
Plain(msg) == [text |-> msg, sentence |-> FALSE]
Sentence(msg) == [text |-> msg, sentence |-> TRUE]

\* disruptionevents.Blocked(node, nodeClaim, reason), as the recorder gets it
Blocked(node, nodeClaim, reason) ==
    [type |-> "Blocked", node |-> node, nodeClaim |-> nodeClaim, reason |-> reason]


\* the event left unpublished
PublishNothing(events, c, res) == events

\* d.recorder.Publish(disruptionevents.Blocked(candidate.Node, candidate.NodeClaim,
\* results.NonPendingPodSchedulingErrors())...)
PublishBlocked(events, c, res) ==
    Append(events, Blocked(c.id, c.id, Plain(res.errors)))


\* the command built without the simulation's node claims
ReplaceCommandWithoutClaims(candidate, res) ==
    [candidates |-> <<candidate>>, replacements |-> <<>>]

\* the command of the one simulated candidate
ReplaceCommandOf(candidate, res) ==
    [candidates |-> <<candidate>>, replacements |-> res.newNodeClaims]


\* no error taken for errCandidateDeleting, and every error taken for it
IsCandidateDeletingNever(e) == FALSE
IsCandidateDeletingAlways(e) == TRUE

\* what the loop does with an error of SimulateScheduling: go on, or give it back
IsCandidateDeleting(e) == e = errCandidateDeleting


\* the same candidate tried again
ContinueWithSame(i) == i

\* continue: the range loop goes on with the next candidate
Continue(i) == i + 1

\* one iteration of the loop over the sorted candidates
ScanVisit ==
    /\ pc = "scan"
    /\ idx <= Len(candidates)
    /\ LET candidate == candidates[idx] IN
       /\ \E o \in ListOutcomes :
            unevictablePodsCache' =
                UnevictablePods(unevictablePodsCache, candidate, o).cache
       /\ IF BudgetExhausted(candidate)
          THEN /\ skipped' = skipped \cup {candidate.id}
               /\ idx' = Continue(idx)
               /\ UNCHANGED <<pc, command, results, err, published, simulated, committed>>
          ELSE \E sim \in SimOutcomes :
               /\ simulated' = Append(simulated, [id |-> candidate.id, outcome |-> sim])
               /\ UNCHANGED skipped
               /\ IF sim.err # nil
                  THEN IF IsCandidateDeleting(sim.err)
                       THEN /\ idx' = Continue(idx)
                            /\ UNCHANGED <<pc, command, results, err, published, committed>>
                       ELSE /\ Return("returnedError", EmptyCommand, NoResults, sim.err)
                            /\ UNCHANGED <<idx, published>>
                  ELSE IF ~sim.results.allScheduled
                       THEN /\ published' = PublishBlocked(published, candidate, sim.results)
                            /\ idx' = Continue(idx)
                            /\ UNCHANGED <<pc, command, results, err, committed>>
                       ELSE /\ Return("returnedCandidate",
                                      ReplaceCommandOf(candidate, sim.results),
                                      sim.results, nil)
                            /\ UNCHANGED <<idx, published>>
    /\ UNCHANGED <<disruptionBudgetMapping, candidates, empty, sortI, sortJ, entryBudget,
                   startBudget, calls, decision, candidateVars>>

\* after the loop: no candidate gave a command
ScanEnd ==
    /\ pc = "scan"
    /\ idx > Len(candidates)
    /\ Return("returnedNoOp", EmptyCommand, NoResults, nil)
    /\ UNCHANGED <<disruptionBudgetMapping, candidates, empty, unevictablePodsCache, idx,
                   sortI, sortJ, published, simulated, skipped, entryBudget,
                   startBudget, calls, decision, candidateVars>>

\* ----------------------------------------------------------- NewCandidate

errNotDisruptable == "errNotDisruptable"
errAlreadyDisrupting == "candidate is already being disrupted"
errNodePoolNotFound == "nodepool not found"
errPodBlockEviction == "errPodBlockEviction"
errListingPods == "errListingPods"

ProviderIDs == {"pid-1", "pid-2"}
InstanceTypes == {"it-1"}

\* node.NodeClaim: nil, or a claim whose Spec.TerminationGracePeriod is set or not
NodeClaims ==
    { [present |-> FALSE, terminationGracePeriod |-> FALSE] }
    \cup { [present |-> TRUE, terminationGracePeriod |-> g] : g \in BOOLEAN }

\* the state nodes NewCandidate is given; blocked: the node is being deleted,
\* is nominated, carries do-not-disrupt, ...
StateNodes ==
    [providerID : ProviderIDs, nodeClaim : NodeClaims, blocked : BOOLEAN,
     nodePoolLabel : NodePools, instanceTypeLabel : InstanceTypes]

\* nodePoolToInstanceTypesMap[name]: nil, or a map of instance types by name
InstanceTypeMaps ==
    { [present |-> FALSE, types |-> {}] }
    \cup { [present |-> TRUE, types |-> ts] : ts \in SUBSET InstanceTypes }

\* what node.ValidatePodsDisruptable comes back with: the pods of the node (how
\* many, and how many of them reschedulable) and an error or nil
PodValidations ==
    { [err |-> e, pods |-> n, reschedulable |-> k] :
        e \in {nil, errPodBlockEviction}, n \in {1}, k \in PodCounts }
    \cup { [err |-> nil, pods |-> 0, reschedulable |-> 0],
           [err |-> errListingPods, pods |-> 0, reschedulable |-> 0] }

DisruptionClasses == {GracefulDisruptionClass, EventualDisruptionClass}

NewCandidateArgs ==
    [node : StateNodes,
     nodePoolMap : SUBSET NodePools,
     nodePoolToInstanceTypesMap : [NodePools -> InstanceTypeMaps],
     queue : SUBSET ProviderIDs,
     disruptionClass : DisruptionClasses,
     podValidation : PodValidations]

NoInstanceType == [present |-> FALSE, name |-> ""]

NoCandidate ==
    [present |-> FALSE, providerID |-> "", instanceType |-> NoInstanceType,
     nodePool |-> "", reschedulablePods |-> 0]

NoArgs == [called |-> FALSE, a |-> <<>>]

\* node.ValidateNodeDisruptable: a node without a NodeClaim is not managed and
\* never disruptable
ValidateNodeDisruptable(node) ==
    IF ~node.nodeClaim.present \/ node.blocked THEN errNotDisruptable ELSE nil

\* queue.HasAny(providerID)
HasAny(queue, providerID) == providerID \in queue

\* state.IgnorePodBlockEvictionError
IgnorePodBlockEvictionError(e) == IF e = errPodBlockEviction THEN nil ELSE e

\* instanceTypeMap[label]: nil when the map has no such instance type
InstanceTypeOf(instanceTypeMap, label) ==
    IF label \in instanceTypeMap.types
    THEN [present |-> TRUE, name |-> label] ELSE NoInstanceType


\* the node's own instance type required as well
NodePoolOrInstanceTypeNotFound(a) ==
    \/ a.node.nodePoolLabel \notin a.nodePoolMap
    \/ a.node.instanceTypeLabel
            \notin a.nodePoolToInstanceTypesMap[a.node.nodePoolLabel].types

\* nodePool == nil || instanceTypeMap == nil: the nodepool of the node, or the
\* nodepool's map of instance types, is missing
NodePoolNotFound(a) ==
    \/ a.node.nodePoolLabel \notin a.nodePoolMap
    \/ ~a.nodePoolToInstanceTypesMap[a.node.nodePoolLabel].present


\* the termination grace period left out of the test
EventualClassOnly(node, disruptionClass) == disruptionClass = EventualDisruptionClass

\* eventualDisruptionCandidate
EventualDisruptionCandidate(node, disruptionClass) ==
    node.nodeClaim.terminationGracePeriod /\ disruptionClass = EventualDisruptionClass

\* lo.Ternary(eventualDisruptionCandidate, IgnorePodBlockEvictionError(err), err)
PodsError(a) ==
    IF EventualDisruptionCandidate(a.node, a.disruptionClass)
    THEN IgnorePodBlockEvictionError(a.podValidation.err)
    ELSE a.podValidation.err


\* the queue asked about the nodepool's name instead of the provider id
AlreadyDisruptingWrongKey(a) == HasAny(a.queue, a.node.nodePoolLabel)

\* whether the queue already considers the node
AlreadyDisrupting(a) == HasAny(a.queue, a.node.providerID)

\* the Candidate NewCandidate builds (zone, capacity type and disruption cost
\* are copies of labels and a product of outside functions)
CandidateFor(a) ==
    [present |-> TRUE,
     providerID |-> a.node.providerID,
     instanceType |-> InstanceTypeOf(a.nodePoolToInstanceTypesMap[a.node.nodePoolLabel],
                                     a.node.instanceTypeLabel),
     nodePool |-> a.node.nodePoolLabel,
     reschedulablePods |-> a.podValidation.reschedulable]


\* the event of a node that is not disruptable published whatever the node is
HasNodeClaimAlways(node) == TRUE

\* node.NodeClaim != nil: the node is managed by Karpenter
HasNodeClaim(node) == node.nodeClaim.present

\* NewCandidate's (candidate, error) and the events it publishes
NewCandidateResult(a) ==
    IF ValidateNodeDisruptable(a.node) # nil
    THEN [candidate |-> NoCandidate, err |-> ValidateNodeDisruptable(a.node),
          published |-> IF HasNodeClaim(a.node)
                        THEN <<Blocked(a.node.providerID, a.node.providerID,
                                       Sentence(errNotDisruptable))>>
                        ELSE <<>>]
    ELSE IF AlreadyDisrupting(a)
    THEN [candidate |-> NoCandidate, err |-> errAlreadyDisrupting, published |-> <<>>]
    ELSE IF NodePoolNotFound(a)
    THEN [candidate |-> NoCandidate, err |-> errNodePoolNotFound,
          published |-> <<Blocked(a.node.providerID, a.node.providerID,
                                 Plain(errNodePoolNotFound))>>]
    ELSE IF a.podValidation.err # nil /\ PodsError(a) # nil
    THEN [candidate |-> NoCandidate, err |-> a.podValidation.err,
          published |-> <<Blocked(a.node.providerID, a.node.providerID,
                                 Sentence(a.podValidation.err))>>]
    ELSE [candidate |-> CandidateFor(a), err |-> nil, published |-> <<>>]

\* the call, on the arguments the caller holds
NewCandidate ==
    /\ callArgs.called = FALSE
    /\ callArgs.a \in NewCandidateArgs
    /\ callArgs' = [callArgs EXCEPT !.called = TRUE]
    /\ newCandidate' = NewCandidateResult(callArgs.a).candidate
    /\ newCandidateErr' = NewCandidateResult(callArgs.a).err
    /\ published' = NewCandidateResult(callArgs.a).published
    /\ UNCHANGED <<disruptionBudgetMapping, candidates, empty, unevictablePodsCache, pc,
                   idx, sortI, sortJ, command, results, err, simulated, skipped,
                   entryBudget, startBudget, committed, calls, decision>>

\* the budgets of a pass: every entry a non-negative number of disruptions
BudgetMappings ==
    { [np \in NodePools |-> [r \in Reasons |-> IF r = Reason THEN b[np] ELSE MaxBudget]] :
        b \in [NodePools -> 0..MaxBudget] }

Init ==
    /\ disruptionBudgetMapping \in BudgetMappings
    /\ startBudget = disruptionBudgetMapping
    /\ entryBudget = disruptionBudgetMapping
    /\ pc = "idle"
    /\ Idle
    /\ committed = [np \in NodePools |-> [empty |-> 0, simulated |-> 0]]
    /\ calls = 0
    /\ decision = ""
    /\ callArgs = NoArgs
    /\ newCandidate = NoCandidate
    /\ newCandidateErr = nil

Next ==
    \/ ComputeCommand
    \/ EmptyScanVisit
    \/ EmptyScanReturn
    \/ EmptyScanFallThrough
    \/ SortLess
    \/ ScanVisit
    \/ ScanEnd

\* one call of ComputeCommand, on any budget mapping
Spec == Init /\ [][Next]_vars

\* the call runs on: a statement that can be executed is executed. Every step
\* is a statement of one sequential function and the calls it waits for
\* (listing pods, the simulation) return
Fairness == WF_vars(Next)

\* one call of ComputeCommand that is not left unfinished
SpecLive == Init /\ [][Next]_vars /\ Fairness

NextPass ==
    \/ Next
    \/ CallerContinues

\* the calls of one pass, on one budget mapping
SpecPass == Init /\ [][NextPass]_vars

NextSort ==
    \/ ComputeCommandOfNonEmpty
    \/ EmptyScanVisit
    \/ EmptyScanFallThrough
    \/ SortLess
    \/ ScanVisit
    \/ ScanEnd

\* one call of ComputeCommand on candidates that all have pods to reschedule
SpecSort == Init /\ [][NextSort]_vars

\* the budget mapping plays no part in NewCandidate and Decision
InitNoPass ==
    /\ disruptionBudgetMapping = [np \in NodePools |-> [r \in Reasons |-> 0]]
    /\ startBudget = disruptionBudgetMapping
    /\ entryBudget = disruptionBudgetMapping
    /\ pc = "idle"
    /\ Idle
    /\ committed = [np \in NodePools |-> [empty |-> 0, simulated |-> 0]]
    /\ calls = 0
    /\ decision = ""
    /\ newCandidate = NoCandidate
    /\ newCandidateErr = nil

\* NewCandidate is about to be called, on any arguments
InitCandidate ==
    /\ InitNoPass
    /\ \E a \in NewCandidateArgs : callArgs = [called |-> FALSE, a |-> a]

NextCandidate == NewCandidate

\* one call of NewCandidate
SpecCandidate == InitCandidate /\ [][NextCandidate]_vars

InitDecision ==
    /\ InitNoPass
    /\ callArgs = NoArgs

\* a Command value is built
NewCommand ==
    /\ \E cs \in CandidateLists, rs \in NodeClaimLists :
        command' = [candidates |-> cs, replacements |-> rs]
    /\ decision' = ""
    /\ UNCHANGED <<driftVars, candidateVars>>

\* c.Decision() on the Command held
CallDecision ==
    /\ decision' = Decision(command)
    /\ UNCHANGED <<driftVars, command, candidateVars>>

NextDecision ==
    \/ NewCommand
    \/ CallDecision

\* Commands and their decisions
SpecDecision == InitDecision /\ [][NextDecision]_vars

\* ------------------------------------------------------------------ claims

\* C1: Decision() returns exactly one of no-op, delete, replace: replace iff
\* candidates and replacements are both non-empty, delete iff candidates is
\* non-empty and replacements is empty, no-op in every other case (replacements
\* without candidates included).
C1_DecisionClassifies ==
    decision # "" =>
        /\ decision \in {NoOpDecision, DeleteDecision, ReplaceDecision}
        /\ decision = ReplaceDecision <=>
              (Len(command.candidates) > 0 /\ Len(command.replacements) > 0)
        /\ decision = DeleteDecision <=>
              (Len(command.candidates) > 0 /\ Len(command.replacements) = 0)
        /\ decision = NoOpDecision <=> Len(command.candidates) = 0

\* replacements without candidates: no-op
C1_Witness ==
    /\ decision = NoOpDecision
    /\ Len(command.candidates) = 0
    /\ Len(command.replacements) > 0

\* C2: NewCandidate returns a failure and no Candidate whenever the node's
\* provider id is in the in-flight queue, whatever the other arguments are.
C2_QueuedNodeIsNoCandidate ==
    (callArgs.called /\ callArgs.a.node.providerID \in callArgs.a.queue) =>
        /\ ~newCandidate.present
        /\ newCandidateErr # nil

\* a node that is disruptable, of a known nodepool, with evictable pods, but queued
C2_Witness ==
    /\ callArgs.called
    /\ callArgs.a.node.providerID \in callArgs.a.queue
    /\ ValidateNodeDisruptable(callArgs.a.node) = nil
    /\ ~NodePoolNotFound(callArgs.a)
    /\ callArgs.a.podValidation.err = nil
    /\ newCandidateErr = errAlreadyDisrupting
    /\ ~newCandidate.present

\* the ids of the candidates in a list
IdsOf(cs) == { cs[i].id : i \in 1..Len(cs) }

\* the last SimulateScheduling call of the behaviour's next state
LastSimulated == simulated[Len(simulated)]

\* a step in which SimulateScheduling is called
SimulatesNow == Len(simulated') = Len(simulated) + 1

\* C3: a call with N candidates, all without reschedulable pods and of one
\* nodepool whose budget B is below N, returns exactly B candidates and no
\* replacements, leaves the budget at 0, and never simulates.
C3_EmptyBatchTakesBudget ==
    \A np \in NodePools :
        ( /\ pc # "idle"
          /\ Len(candidates) >= 1
          /\ \A i \in 1..Len(candidates) :
                candidates[i].reschedulablePods = 0 /\ candidates[i].nodePool = np
          /\ entryBudget[np][Reason] < Len(candidates) )
        => /\ simulated = <<>>
           /\ pc \in Returned =>
                /\ Len(command.candidates) = entryBudget[np][Reason]
                /\ command.replacements = <<>>
                /\ disruptionBudgetMapping[np][Reason] = 0

\* two empty candidates of one nodepool, a budget of 1: one is returned
C3_Witness ==
    /\ pc = "returnedEmpty"
    /\ Len(candidates) = 2
    /\ \A i \in 1..2 : candidates[i].reschedulablePods = 0
    /\ candidates[1].nodePool = candidates[2].nodePool
    /\ entryBudget[candidates[1].nodePool][Reason] = 1
    /\ Len(command.candidates) = 1
    /\ disruptionBudgetMapping[candidates[1].nodePool][Reason] = 0

\* C4: a command returned after a scheduling simulation holds exactly one
\* candidate, the one simulated last, and its replacements are the new node
\* claims that simulation proposed.
C4_SimulatedCommandIsOneCandidate ==
    /\ pc = "returnedCandidate" =>
        /\ Len(simulated) >= 1
        /\ command.candidates = <<candidates[idx]>>
        /\ LastSimulated.id = candidates[idx].id
        /\ LastSimulated.outcome.err = nil
        /\ command.replacements = LastSimulated.outcome.results.newNodeClaims
        /\ results = LastSimulated.outcome.results
    /\ (pc \in Returned /\ simulated # <<>> /\ command.candidates # <<>>) =>
        pc = "returnedCandidate"

\* the second candidate is returned with a replacement, the first was passed over
C4_Witness ==
    /\ pc = "returnedCandidate"
    /\ Len(simulated) = 2
    /\ Len(command.candidates) = 1
    /\ Len(command.replacements) = 1
    /\ Decision(command) = ReplaceDecision

\* a candidate is visited, in either scan, while its nodepool's budget is 0
C5_VisitsExhausted ==
    /\ pc \in {"empty", "scan"}
    /\ idx <= Len(candidates)
    /\ disruptionBudgetMapping[candidates[idx].nodePool][Reason] = 0

\* C5: a candidate whose nodepool's budget is 0 when it is visited, in the
\* empty scan or in the scan of the sorted candidates, is skipped: the budget
\* is not decremented, the simulation is not invoked, the scan moves on, and
\* the candidate is not in the returned command.
C5_ExhaustedBudgetSkips ==
    /\ [][C5_VisitsExhausted =>
            /\ disruptionBudgetMapping' = disruptionBudgetMapping
            /\ simulated' = simulated
            /\ empty' = empty
            /\ command' = command
            /\ pc' = pc
            /\ idx' = idx + 1]_vars
    /\ [](pc \in Returned =>
            /\ skipped \cap IdsOf(command.candidates) = {}
            /\ skipped \cap IdsOf(simulated) = {})

\* a candidate was skipped in both scans and another one was returned
C5_Witness ==
    /\ pc = "returnedCandidate"
    /\ skipped # {}
    /\ \E i \in 1..Len(candidates) :
        /\ candidates[i].id \in skipped
        /\ candidates[i].reschedulablePods = 0

\* C6 as stated: over the calls of a pass on one budget mapping, the
\* candidates of a nodepool placed into the returned commands never exceed the
\* nodepool's budget at the start of the pass.
C6_PassBudgetCapsAllCommands ==
    \A np \in NodePools :
        committed[np].empty + committed[np].simulated <= startBudget[np][Reason]

\* C6 amended: over the calls of a pass on one budget mapping, the candidates
\* of a nodepool returned in empty batches never exceed the nodepool's budget
\* at the start of the pass; a command returned after a simulation holds one
\* candidate of a nodepool whose budget is not 0 and leaves the budget as it is.
C6_PassBudgetCapsEmptyBatches ==
    /\ \A np \in NodePools : committed[np].empty <= startBudget[np][Reason]
    /\ pc = "returnedCandidate" =>
        /\ Len(command.candidates) = 1
        /\ disruptionBudgetMapping[command.candidates[1].nodePool][Reason] > 0
        /\ disruptionBudgetMapping = entryBudget

\* the second call of a pass: the empty batches have used up a nodepool's
\* budget of 2
C6_Witness ==
    /\ calls = 2
    /\ pc = "returnedEmpty"
    /\ \E np \in NodePools :
        /\ startBudget[np][Reason] = 2
        /\ committed[np].empty = 2
        /\ disruptionBudgetMapping[np][Reason] = 0

\* C7: when the simulation of a candidate fails with errCandidateDeleting the
\* candidate is left out of the command and the scan goes on with the next
\* candidate; the error is never returned; when every simulation of the call
\* fails so, the call returns a no-op command and no error.
C7_CandidateDeletingContinues ==
    /\ [][(SimulatesNow /\ LastSimulated'.outcome.err = errCandidateDeleting) =>
            /\ pc = "scan"
            /\ LastSimulated'.id = candidates[idx].id
            /\ candidates' = candidates
            /\ pc' = "scan"
            /\ idx' = idx + 1
            /\ command' = EmptyCommand
            /\ err' = nil]_vars
    /\ [](err # errCandidateDeleting)
    /\ [](pc \in Returned =>
            /\ \A k \in 1..Len(simulated) :
                simulated[k].outcome.err = errCandidateDeleting =>
                    simulated[k].id \notin IdsOf(command.candidates)
            /\ ( /\ simulated # <<>>
                 /\ \A k \in 1..Len(simulated) :
                        simulated[k].outcome.err = errCandidateDeleting )
               => (pc = "returnedNoOp" /\ command = EmptyCommand /\ err = nil))

\* two candidates, both simulations fail with errCandidateDeleting: no-op
C7_Witness ==
    /\ pc = "returnedNoOp"
    /\ Len(simulated) = 2
    /\ \A k \in 1..2 : simulated[k].outcome.err = errCandidateDeleting
    /\ simulated[1].id = candidates[1].id
    /\ simulated[2].id = candidates[2].id
    /\ err = nil

\* C8: when the simulation of a candidate fails with another error, the call
\* ends there: the error is returned with an empty command (no-op) and no
\* candidate later in the scan is simulated.
C8_SimulationErrorAborts ==
    /\ \A k \in 1..Len(simulated) :
        simulated[k].outcome.err \notin {nil, errCandidateDeleting} =>
            /\ k = Len(simulated)
            /\ pc = "returnedError"
            /\ err = simulated[k].outcome.err
            /\ command = EmptyCommand
            /\ Decision(command) = NoOpDecision
            /\ simulated[k].id = candidates[idx].id
            /\ \A j \in (idx + 1)..Len(candidates) :
                candidates[j].id \notin IdsOf(simulated)
    /\ pc = "returnedError" =>
        /\ simulated # <<>>
        /\ LastSimulated.outcome.err \notin {nil, errCandidateDeleting}

\* the first of two candidates fails; the second, whose budget would have
\* allowed it, is not simulated
C8_Witness ==
    /\ pc = "returnedError"
    /\ err = errSimulation
    /\ Len(candidates) = 2
    /\ idx = 1
    /\ disruptionBudgetMapping[candidates[2].nodePool][Reason] > 0
    /\ Len(simulated) = 1

\* the simulation came back without error and with pods left unscheduled
C9_Unscheduled(s) == s.outcome.err = nil /\ ~s.outcome.results.allScheduled

\* C9: when the simulation of a candidate succeeds and reports that not all
\* non-pending pods could be scheduled, a Blocked event with the scheduling
\* errors is published for the candidate's node and node claim, the candidate
\* is in no command and the scan goes on; an only candidate gives a no-op
\* command and no error.
C9_UnschedulablePublishesBlocked ==
    /\ [][(SimulatesNow /\ C9_Unscheduled(LastSimulated')) =>
            /\ pc = "scan"
            /\ LastSimulated'.id = candidates[idx].id
            /\ published' =
                 Append(published,
                        Blocked(candidates[idx].id, candidates[idx].id,
                                Plain(LastSimulated'.outcome.results.errors)))
            /\ pc' = "scan"
            /\ idx' = idx + 1
            /\ command' = EmptyCommand
            /\ err' = nil]_vars
    /\ [](pc \in Returned =>
            /\ \A k \in 1..Len(simulated) :
                C9_Unscheduled(simulated[k]) =>
                    simulated[k].id \notin IdsOf(command.candidates)
            /\ (Len(candidates) = 1 /\ Len(simulated) = 1
                    /\ C9_Unscheduled(simulated[1]))
               => /\ pc = "returnedNoOp"
                  /\ command = EmptyCommand
                  /\ err = nil
                  /\ Len(published) = 1)

\* the only candidate's pods cannot be scheduled: one Blocked event, no-op
C9_Witness ==
    /\ pc = "returnedNoOp"
    /\ Len(candidates) = 1
    /\ Len(simulated) = 1
    /\ C9_Unscheduled(simulated[1])
    /\ published = <<Blocked(candidates[1].id, candidates[1].id, Plain("pod-errors"))>>
    /\ Decision(command) = NoOpDecision

\* NewCandidate was called and got as far as node.ValidatePodsDisruptable
C10_PodsValidated ==
    /\ callArgs.called
    /\ ValidateNodeDisruptable(callArgs.a.node) = nil
    /\ callArgs.a.node.providerID \notin callArgs.a.queue
    /\ callArgs.a.node.nodePoolLabel \in callArgs.a.nodePoolMap
    /\ callArgs.a.nodePoolToInstanceTypesMap[callArgs.a.node.nodePoolLabel].present

\* C10: when the validation of the pods fails with a pod-blocks-eviction
\* error, a Candidate is returned if and only if the class is eventual and the
\* node claim has a termination grace period; for the graceful class, without
\* a termination grace period, or for any other validation error, a Blocked
\* event is published and the error is returned with no Candidate.
C10_PodBlockDowngradedForEventual ==
    (C10_PodsValidated /\ callArgs.a.podValidation.err # nil) =>
        IF /\ callArgs.a.podValidation.err = errPodBlockEviction
           /\ callArgs.a.disruptionClass = EventualDisruptionClass
           /\ callArgs.a.node.nodeClaim.terminationGracePeriod
        THEN /\ newCandidate.present
             /\ newCandidateErr = nil
             /\ published = <<>>
        ELSE /\ ~newCandidate.present
             /\ newCandidateErr = callArgs.a.podValidation.err
             /\ published =
                  <<Blocked(callArgs.a.node.providerID, callArgs.a.node.providerID,
                            Sentence(callArgs.a.podValidation.err))>>

\* a pod blocks eviction, the class is eventual, the grace period is set
C10_Witness ==
    /\ C10_PodsValidated
    /\ callArgs.a.podValidation.err = errPodBlockEviction
    /\ callArgs.a.disruptionClass = EventualDisruptionClass
    /\ callArgs.a.node.nodeClaim.terminationGracePeriod
    /\ newCandidate.present
    /\ newCandidateErr = nil

\* NewCandidate was called and returned an error
C11_Failed == callArgs.called /\ newCandidateErr # nil

\* C11 as stated: every failing NewCandidate call returns a failure and no
\* Candidate and has published a notification for the node.
C11_EveryFailurePublishes ==
    C11_Failed => (~newCandidate.present /\ published # <<>>)

\* C11 amended: every failing NewCandidate call returns a failure and no
\* Candidate; exactly one Blocked notification for the node is published when
\* the node pool is not found, when the pods are not disruptable, and when
\* the node is not disruptable and has a NodeClaim; nothing is published when
\* the node is already being disrupted or is not disruptable and has no
\* NodeClaim; a call that succeeds publishes nothing.
C11_FailurePublishesUnlessQueuedOrUnmanaged ==
    /\ C11_Failed =>
        /\ ~newCandidate.present
        /\ newCandidateErr \in {errNotDisruptable, errAlreadyDisrupting,
                                errNodePoolNotFound, errPodBlockEviction,
                                errListingPods}
        /\ IF \/ newCandidateErr = errAlreadyDisrupting
              \/ (newCandidateErr = errNotDisruptable
                    /\ ~callArgs.a.node.nodeClaim.present)
           THEN published = <<>>
           ELSE /\ Len(published) = 1
                /\ published[1].type = "Blocked"
                /\ published[1].node = callArgs.a.node.providerID
                /\ published[1].nodeClaim = callArgs.a.node.providerID
    /\ (callArgs.called /\ newCandidateErr = nil) =>
        (newCandidate.present /\ published = <<>>)

\* a managed, disruptable node that the queue holds: an error and no event
C11_Witness ==
    /\ C11_Failed
    /\ callArgs.a.node.nodeClaim.present
    /\ ~callArgs.a.node.blocked
    /\ newCandidateErr = errAlreadyDisrupting
    /\ published = <<>>

\* C12 as stated: when ComputeCommand has returned a command, every nodepool's
\* 'drifted' budget is its budget before the call minus the number of the
\* nodepool's candidates in the command, for the empty batch and for the
\* single candidate returned after a simulation alike.
C12_BudgetChargedForEveryCommand ==
    pc \in Returned =>
        \A np \in NodePools :
            disruptionBudgetMapping[np][Reason] =
                entryBudget[np][Reason] - CountOf(np, command.candidates)

\* C12 amended: when ComputeCommand has returned an empty batch, every
\* nodepool's 'drifted' budget is its budget before the call minus the number
\* of the nodepool's candidates in the batch and no other entry has changed;
\* when it has returned anything else (the single candidate of a simulation,
\* a no-op, an error) the budget mapping is what it was before the call.
C12_BudgetChargedForEmptyBatch ==
    /\ pc = "returnedEmpty" =>
        \A np \in NodePools :
            /\ disruptionBudgetMapping[np][Reason] =
                    entryBudget[np][Reason] - CountOf(np, command.candidates)
            /\ \A r \in Reasons \ {Reason} :
                    disruptionBudgetMapping[np][r] = entryBudget[np][r]
    /\ pc \in Returned \ {"returnedEmpty"} =>
        disruptionBudgetMapping = entryBudget

\* an empty batch of two candidates of two nodepools, each charged once
C12_Witness ==
    /\ pc = "returnedEmpty"
    /\ Len(command.candidates) = 2
    /\ command.candidates[1].nodePool # command.candidates[2].nodePool
    /\ \A np \in NodePools :
        disruptionBudgetMapping[np][Reason] = entryBudget[np][Reason] - 1

\* a call is under way, or has returned, on a list with an empty candidate
\* whose nodepool had a positive 'drifted' budget when the call began
C13_EmptyCandidateAllowed ==
    /\ pc # "idle"
    /\ \E i \in 1..Len(candidates) :
        /\ candidates[i].reschedulablePods = 0
        /\ entryBudget[candidates[i].nodePool][Reason] > 0

\* C13: if a candidate without reschedulable pods belongs to a nodepool with
\* a positive 'drifted' budget, the call returns a command that holds only
\* candidates without reschedulable pods and no replacements (decision
\* delete), and no candidate is simulated in the call.
C13_EmptyCandidatesPreferred ==
    C13_EmptyCandidateAllowed =>
        /\ simulated = <<>>
        /\ pc \in {"empty", "returnedEmpty"}
        /\ pc = "returnedEmpty" =>
            /\ Len(command.candidates) >= 1
            /\ \A k \in 1..Len(command.candidates) :
                command.candidates[k].reschedulablePods = 0
            /\ command.replacements = <<>>
            /\ Decision(command) = DeleteDecision
            /\ results = NoResults
            /\ err = nil

\* an older candidate with pods and budget is passed over for the empty one
C13_Witness ==
    /\ pc = "returnedEmpty"
    /\ Len(candidates) = 2
    /\ candidates[1].reschedulablePods > 0
    /\ candidates[1].driftedAt < candidates[2].driftedAt
    /\ entryBudget[candidates[1].nodePool][Reason] > 0
    /\ command.candidates = <<candidates[2]>>
    /\ Decision(command) = DeleteDecision

\* the candidates are in ascending order of the time they drifted
C14_OldestFirst ==
    \A i, j \in 1..Len(candidates) :
        i < j => candidates[i].driftedAt <= candidates[j].driftedAt

\* candidates that drifted at the same time are in the order of the input
C14_TiesInInputOrder ==
    \A i, j \in 1..Len(candidates) :
        (i < j /\ candidates[i].driftedAt = candidates[j].driftedAt)
            => candidates[i].id < candidates[j].id

\* the empty candidates among the first n that the budget at entry admits:
\* of every nodepool the first B, B being the nodepool's budget
C14_Admitted(n) ==
    { candidates[i].id : i \in
        { i \in 1..n :
            /\ candidates[i].reschedulablePods = 0
            /\ Cardinality({ k \in 1..(i - 1) :
                    /\ candidates[k].reschedulablePods = 0
                    /\ candidates[k].nodePool = candidates[i].nodePool })
                 < entryBudget[candidates[i].nodePool][Reason] } }

C14_IsAdmitted(c) == c.id \in C14_Admitted(Len(candidates))

C14_IsAdmittedSoFar(c) == c.id \in C14_Admitted(idx - 1)

\* the empty scan takes the first candidates the budget admits, in order
C14_FirstAdmittedTaken ==
    /\ pc = "empty" =>
        empty = SelectSeq(SubSeq(candidates, 1, idx - 1), C14_IsAdmittedSoFar)
    /\ pc = "returnedEmpty" =>
        command.candidates = SelectSeq(candidates, C14_IsAdmitted)

\* C14 as stated: the candidates are processed in ascending order of the
\* time they drifted, candidates of equal times in their input order, and an
\* empty batch holds the first candidates of that order that the budget
\* admits, in that order.
C14_OldestFirstStable ==
    pc \in {"empty", "returnedEmpty"} =>
        /\ C14_OldestFirst
        /\ C14_TiesInInputOrder
        /\ C14_FirstAdmittedTaken

\* C14 amended: the candidates are processed in ascending order of the time
\* they drifted (candidates of equal times in whatever order the sort leaves
\* them, every input candidate once), and an empty batch holds the first
\* candidates of that order that the budget admits, in that order.
C14_OldestFirstAnyTieOrder ==
    pc \in {"empty", "returnedEmpty"} =>
        /\ C14_OldestFirst
        /\ IdsOf(candidates) = 1..Len(candidates)
        /\ C14_FirstAdmittedTaken

\* the input held the older of two empty candidates of one nodepool second;
\* the budget of 1 goes to it
C14_Witness ==
    /\ pc = "returnedEmpty"
    /\ Len(candidates) = 2
    /\ candidates[1].id = 2
    /\ candidates[1].driftedAt < candidates[2].driftedAt
    /\ candidates[1].nodePool = candidates[2].nodePool
    /\ candidates[2].reschedulablePods = 0
    /\ entryBudget[candidates[1].nodePool][Reason] = 1
    /\ command.candidates = <<candidates[1]>>

\* the stable sort is done and the scan has not begun
C15_Sorted == pc = "scan" /\ idx = 1 /\ simulated = <<>> /\ skipped = {}

\* the pods of the candidate's node were listed: its count is known
C15_Counted(c) == c.id \in DOMAIN unevictablePodsCache

\* C15 as stated: the scan visits the candidates in ascending order of their
\* count of pods that are not disruptable and wait for eviction, candidates
\* of equal counts oldest drift first, and the candidate returned is the first
\* of that order whose nodepool's budget is not 0 and whose simulation
\* succeeded with all pods scheduled.
C15_VisitedByUnevictableCount ==
    /\ C15_Sorted =>
        \A i, j \in 1..Len(candidates) :
            (i < j /\ C15_Counted(candidates[i]) /\ C15_Counted(candidates[j])) =>
                /\ unevictablePodsCache[candidates[i].id]
                        <= unevictablePodsCache[candidates[j].id]
                /\ unevictablePodsCache[candidates[i].id]
                        = unevictablePodsCache[candidates[j].id]
                    => candidates[i].driftedAt <= candidates[j].driftedAt
    /\ pc = "returnedCandidate" =>
        /\ command.candidates = <<candidates[idx]>>
        /\ Budget(candidates[idx]) # 0
        /\ \A k \in 1..(idx - 1) :
            \/ candidates[k].id \in skipped /\ Budget(candidates[k]) = 0
            \/ \E n \in 1..Len(simulated) :
                /\ simulated[n].id = candidates[k].id
                /\ \/ simulated[n].outcome.err # nil
                   \/ ~simulated[n].outcome.results.allScheduled

\* C16 as stated: a failure to list the pods of a candidate's node is never
\* returned as an error and does not end the call; the candidate sorts after
\* every candidate whose pods were listed, and it is still visited.
C16_ListingFailureSortsLast ==
    /\ err \in {nil, errSimulation}
    /\ pc = "returnedError" => LastSimulated.outcome.err = errSimulation
    /\ (C15_Sorted /\ Len(candidates) >= 2) =>
        \A i, j \in 1..Len(candidates) :
            (~C15_Counted(candidates[i]) /\ C15_Counted(candidates[j])) => j < i
    /\ pc = "returnedNoOp" =>
        IdsOf(candidates) \subseteq (skipped \cup IdsOf(simulated))

\* NewCandidate was called on a disruptable node that the queue does not hold
C17_ReachedNodePool ==
    /\ callArgs.called
    /\ ValidateNodeDisruptable(callArgs.a.node) = nil
    /\ ~HasAny(callArgs.a.queue, callArgs.a.node.providerID)

\* the nodepool the node's label names is among the nodepools
C17_NodePoolResolved == callArgs.a.node.nodePoolLabel \in callArgs.a.nodePoolMap

\* the instance types of the node's nodepool are known
C17_InstanceTypesKnown ==
    callArgs.a.nodePoolToInstanceTypesMap[callArgs.a.node.nodePoolLabel].present

\* the failure of the node-pool-not-found path and its event
C17_FailedNotFound ==
    /\ ~newCandidate.present
    /\ newCandidateErr = errNodePoolNotFound
    /\ published = <<Blocked(callArgs.a.node.providerID, callArgs.a.node.providerID,
                              Plain(errNodePoolNotFound))>>

\* C17 as stated: for a disruptable node that is not queued, NewCandidate fails
\* with node pool not found (and a Blocked event) exactly when the owning
\* nodepool cannot be resolved; missing instance-type data alone never makes
\* it fail.
C17_NotFoundIffNodePoolUnresolved ==
    C17_ReachedNodePool =>
        /\ newCandidateErr = errNodePoolNotFound <=> ~C17_NodePoolResolved
        /\ (C17_NodePoolResolved /\ callArgs.a.podValidation.err = nil) =>
                (newCandidate.present /\ newCandidateErr = nil)

\* C17 amended: for a disruptable node that is not queued, NewCandidate fails
\* with node pool not found (and a Blocked event) exactly when the owning
\* nodepool cannot be resolved or the nodepool has no map of instance types;
\* when both are there and the pods are disruptable, a node whose own instance
\* type is not in that map still gives a Candidate, with no instanceType.
C17_NotFoundIffNodePoolOrItsInstanceTypesMissing ==
    C17_ReachedNodePool =>
        /\ newCandidateErr = errNodePoolNotFound
                <=> (~C17_NodePoolResolved \/ ~C17_InstanceTypesKnown)
        /\ newCandidateErr = errNodePoolNotFound => C17_FailedNotFound
        /\ ( /\ C17_NodePoolResolved
             /\ C17_InstanceTypesKnown
             /\ callArgs.a.podValidation.err = nil )
           => /\ newCandidate.present
              /\ newCandidateErr = nil
              /\ newCandidate.nodePool = callArgs.a.node.nodePoolLabel
              /\ newCandidate.instanceType.present
                    <=> callArgs.a.node.instanceTypeLabel \in
                            callArgs.a.nodePoolToInstanceTypesMap[
                                callArgs.a.node.nodePoolLabel].types

\* the nodepool has a map of instance types without the node's: a Candidate
\* with no instanceType
C17_Witness ==
    /\ C17_ReachedNodePool
    /\ C17_NodePoolResolved
    /\ C17_InstanceTypesKnown
    /\ callArgs.a.nodePoolToInstanceTypesMap[callArgs.a.node.nodePoolLabel].types = {}
    /\ newCandidate.present
    /\ ~newCandidate.instanceType.present
    /\ newCandidateErr = nil

\* C18: over the calls of a pass that begins with a budget mapping of
\* non-negative entries, whatever the candidates and the outcomes of the
\* simulations, no entry of the mapping is ever negative and no step raises
\* an entry.
C18_BudgetsNonNegativeNonIncreasing ==
    /\ [](\A np \in NodePools : \A r \in Reasons :
            /\ disruptionBudgetMapping[np][r] >= 0
            /\ disruptionBudgetMapping[np][r] <= startBudget[np][r])
    /\ [][\A np \in NodePools : \A r \in Reasons :
            disruptionBudgetMapping'[np][r] <= disruptionBudgetMapping[np][r]]_vars

\* the second call of a pass ends in an error after the first has used up a
\* nodepool's budget
C18_Witness ==
    /\ calls = 2
    /\ pc = "returnedError"
    /\ \E np \in NodePools :
        /\ startBudget[np][Reason] = 1
        /\ disruptionBudgetMapping[np][Reason] = 0

\* C19: with budgets that are not negative, SimulateScheduling is never
\* called for a candidate without reschedulable pods, also not when the empty
\* batch stays empty for exhausted budgets and the scan, which runs over all
\* candidates, comes to the empty ones.
C19_EmptyCandidateNeverSimulated ==
    \A k \in 1..Len(simulated) :
        \A i \in 1..Len(candidates) :
            candidates[i].id = simulated[k].id =>
                candidates[i].reschedulablePods > 0

\* an empty candidate of a nodepool without budget is passed over in both
\* scans, the candidate with pods is simulated
C19_Witness ==
    /\ pc = "returnedNoOp"
    /\ Len(candidates) = 2
    /\ Len(simulated) = 1
    /\ \E i \in 1..2 :
        /\ candidates[i].reschedulablePods = 0
        /\ entryBudget[candidates[i].nodePool][Reason] = 0
        /\ candidates[i].id \in skipped
        /\ simulated[1].id # candidates[i].id

\* C20: every call of ComputeCommand comes to a return; within a call
\* SimulateScheduling is called at most once for a candidate, and the scan
\* only moves forward over an unchanged list, so that a candidate passed over
\* (candidate deleting, pods not schedulable, budget exhausted) is not
\* visited again.
C20_TerminatesAndSimulatesOnce ==
    /\ (pc = "empty") ~> (pc \in Returned)
    /\ [](\A k1, k2 \in 1..Len(simulated) :
            simulated[k1].id = simulated[k2].id => k1 = k2)
    /\ [](pc = "scan" =>
            /\ Len(simulated) + Cardinality(skipped) >= idx - 1
            /\ \A k \in 1..Len(simulated) :
                \E i \in 1..(idx - 1) : candidates[i].id = simulated[k].id)
    /\ [][(pc = "scan" /\ pc' = "scan") =>
            (idx' = idx + 1 /\ candidates' = candidates)]_vars
    /\ [][(pc \in Returned) => (pc' = pc)]_vars

\* the first candidate is being deleted, the pods of the second cannot be
\* scheduled: each was simulated once and the call has returned
C20_Witness ==
    /\ pc = "returnedNoOp"
    /\ Len(candidates) = 2
    /\ Len(simulated) = 2
    /\ simulated[1].id = candidates[1].id
    /\ simulated[1].outcome.err = errCandidateDeleting
    /\ simulated[2].id = candidates[2].id
    /\ C9_Unscheduled(simulated[2])
    /\ idx = 3

====
